---- MODULE Spec2Model ----
(***************************************************************************)
(* A model of scratch-audio's playback core (src/src/SoundPlayer.js):      *)
(* SoundPlayer, DrumPlayer, AudioPlayer and AudioEngine.                   *)
(*                                                                         *)
(* Objects live in heaps: `players` holds the SoundPlayers created by      *)
(* playSound, `drumSounds` the DrumPlayer's fixed SoundPlayers, `sources`  *)
(* the Web Audio buffer source nodes (the playback units).  References are *)
(* indices, Null is the null reference.  A buffer source is "playing" until *)
(* it is "stopped" by stop() or has "finished" its buffer; either way its  *)
(* `ended` event is then queued, and the event loop dispatches it later to *)
(* the onended handler, after which the source has "ended".                *)
(***************************************************************************)
EXTENDS Integers, Sequences, FiniteSets, TLC

\* ---------------------------------------------------------------- bounds
MaxSources == 2     \* buffer source nodes created in a run
MaxWaits == 1       \* timers outstanding at a time
MaxBeats == 2       \* longest wait, in beats
MaxPending == 1     \* decodes of one md5 in flight at a time
MaxNotes == 1       \* instrument notes in flight at a time

\* The actors (one AudioPlayer each), the md5s of the sounds, the drum numbers.
Actors == {1, 2}
Sounds == {1, 2}
Drums == {1}
Beats == 1..MaxBeats

Null == 0

\* Playback rates are fixed-point numbers: OneRate stands for the rate 1.
OneRate == 4
\* Gains are fixed-point numbers: OneGain stands for the gain 1.
OneGain == 10

\* Input sets of the operations.
PitchValues == {-120, 0, 120}
PanValues == {0, 100}
VolumeValues == {50, 100}
TempoValues == {60, 120}
TempoDeltas == {-60, 60}
Formats == {"", "adpcm", "mp3"}
EffectNames == {"pitch", "pan", "other"}

VARIABLES
    audioBuffers,        \* AudioEngine.audioBuffers: md5 -> "none" | "loaded"
    pendingDecodes,      \* md5 -> number of loaderPromises not yet settled
    players,             \* heap of the SoundPlayers created by playSound
    drumSounds,          \* DrumPlayer.drumSounds
    drumLoaded,          \* drum -> whether its Tone.Buffer(url) has loaded
    sources,             \* heap of buffer source nodes
    activeSoundPlayers,  \* actor -> md5 -> player reference
    pitchEffect,         \* actor -> [value, ratio]
    panEffect,           \* actor -> pan value
    gain,                \* actor -> effectsNode.gain.value
    currentTempo,        \* AudioEngine.currentTempo
    waits,               \* timers set by waitForBeats, not yet fired
    notes,               \* instrument notes in flight
    lastCall             \* history: the last operation and what it returned

vars == <<audioBuffers, pendingDecodes, players, drumSounds, drumLoaded, sources,
          activeSoundPlayers, pitchEffect, panEffect, gain, currentTempo, waits,
          notes, lastCall>>

\* ------------------------------------------------------------ audio graph
\* The effects node of actor a, and the engine's input node.
effectsNode(a) == a
EngineInput == Cardinality(Actors) + 1

\* Buffers: the empty Tone.Buffer of a new SoundPlayer, a decoded buffer of the
\* cache, or the buffer a drum loads from its url.
EmptyBuffer == <<"empty", 0>>
SoundBuffer(md5) == <<"sound", md5>>
DrumBuffer(d) == <<"drum", d>>

\* Faulty variant of loaded: start() never finds a buffer unloaded.
loadedAlways(buffer) == TRUE

\* Tone.Buffer.loaded
loaded(buffer) ==
    CASE buffer[1] = "empty" -> FALSE
      [] buffer[1] = "sound" -> audioBuffers[buffer[2]] = "loaded"
      [] buffer[1] = "drum" -> drumLoaded[buffer[2]]

\* The history variable lastCall: the last operation called, the actor it was
\* called on and what it returned; Event after a step of the environment.
Call(op, actor, ret) == [op |-> op, actor |-> actor, ret |-> ret]
Event == Call("event", Null, "undefined")

\* ------------------------------------------------------------ SoundPlayer
NewSoundPlayer ==
    [outputNode |-> Null, buffer |-> EmptyBuffer, bufferSource |-> Null,
     playbackRate |-> OneRate, isPlaying |-> FALSE, promise |-> "none", resolved |-> 0]

connect(p, node) == [p EXCEPT !.outputNode = node]

setBuffer(p, buffer) == [p EXCEPT !.buffer = buffer]

\* setPlaybackRate: the field, and (setSourceRate) the rate of the player's
\* buffer source if it has one.
setPlaybackRate(p, rate) == [p EXCEPT !.playbackRate = rate]

\* Faulty variant of setSourceRate: the rate only reaches sources started later.
setSourceRateLater(src, rate) == src

setSourceRate(src, rate) == [src EXCEPT !.playbackRate = rate]

\* Faulty variant of sourceStop: stop() ends the source without an ended event.
sourceStopSilent(srcs, s) ==
    IF srcs[s].state = "playing" THEN [srcs EXCEPT ![s].state = "ended"] ELSE srcs

\* bufferSource.stop(): a playing source stops and its ended event is queued;
\* stopping a source that has already stopped changes nothing.
sourceStop(srcs, s) ==
    IF srcs[s].state = "playing"
    THEN [srcs EXCEPT ![s].state = "stopped"]
    ELSE srcs

\* Faulty variant of stop: isPlaying is flipped instead of cleared.
stopToggle(p) == [p EXCEPT !.isPlaying = ~@]

\* stop: the player, and its buffer source if any.
stop(p) == [p EXCEPT !.isPlaying = FALSE]

\* Faulty variant of stopSource: stop() forgets bufferSource.stop().
stopSourceForgotten(srcs, p) == srcs

stopSource(srcs, p) ==
    IF p.bufferSource # Null THEN sourceStop(srcs, p.bufferSource) ELSE srcs

\* Faulty variant of createBufferSource: a player that has a buffer source
\* starts that one again.
createBufferSourceReuse(p, srcs) ==
    IF p.bufferSource # Null THEN p.bufferSource ELSE Len(srcs) + 1

\* Tone.context.createBufferSource(): every start gets a new buffer source.
createBufferSource(p, srcs) == Len(srcs) + 1

\* start: nothing when the buffer is not loaded; otherwise a new buffer source,
\* which replaces the player's reference to the one before, is started.
start(p, srcs) ==
    IF ~loaded(p.buffer)
    THEN p
    ELSE [p EXCEPT !.bufferSource = createBufferSource(p, srcs), !.isPlaying = TRUE]

startSource(srcs, p) ==
    IF ~loaded(p.buffer)
    THEN srcs
    ELSE LET s == createBufferSource(p, srcs)
             n == IF s > Len(srcs) THEN s ELSE Len(srcs)
         IN [i \in 1..n |->
                IF i = s
                THEN [buffer |-> p.buffer, playbackRate |-> p.playbackRate,
                      out |-> p.outputNode, state |-> "playing", onended |-> Null]
                ELSE srcs[i]]

\* finished: a new promise; its executor sets the onended handler of the buffer
\* source, and throws, rejecting the promise, when there is no buffer source.
finished(p) ==
    [p EXCEPT !.promise = IF p.bufferSource = Null THEN "rejected" ELSE "pending"]

finishedSource(srcs, p, id) ==
    IF p.bufferSource = Null THEN srcs
    ELSE [srcs EXCEPT ![p.bufferSource].onended = id]

\* Faulty variant of onended: the handler forgets resolve().
onendedSilent(p) == [p EXCEPT !.isPlaying = FALSE]

\* The onended handler that finished installs: isPlaying = false; resolve().
onended(p) ==
    [p EXCEPT !.isPlaying = FALSE,
              !.promise = IF @ = "pending" THEN "resolved" ELSE @,
              !.resolved = @ + 1]

\* ------------------------------------------------------------ PitchEffect
\* getRatio: 2^(value/120), for the multiples of 120.
RECURSIVE Pow2(_)
Pow2(n) == IF n <= 0 THEN 1 ELSE 2 * Pow2(n - 1)

getRatio(value) ==
    IF value >= 0
    THEN OneRate * Pow2(value \div 120)
    ELSE OneRate \div Pow2((-value) \div 120)

\* Faulty variant of updatePlayers: every player of every actor is retuned.
updatePlayersOfAll(ps, registry, ratio) ==
    [i \in DOMAIN ps |-> setPlaybackRate(ps[i], ratio)]

\* updatePlayers: setPlaybackRate on every player of the registry.
updatePlayers(ps, registry, ratio) ==
    [i \in DOMAIN ps |->
        IF \E h \in Sounds : registry[h] = i
        THEN setPlaybackRate(ps[i], ratio) ELSE ps[i]]

updatePlayersSources(srcs, ps, registry, ratio) ==
    [s \in DOMAIN srcs |->
        IF \E h \in Sounds : registry[h] # Null /\ ps[registry[h]].bufferSource = s
        THEN setSourceRate(srcs[s], ratio) ELSE srcs[s]]

\* ------------------------------------------------------------------ Init
\* The state after `new AudioEngine()` and one createPlayer() per actor: the
\* AudioPlayer constructor runs clearEffects() and then empties the registry.
Init ==
    /\ audioBuffers = [h \in Sounds |-> "none"]
    /\ pendingDecodes = [h \in Sounds |-> 0]
    /\ players = <<>>
    /\ drumSounds = [d \in Drums |-> setBuffer(NewSoundPlayer, DrumBuffer(d))]
    /\ drumLoaded = [d \in Drums |-> FALSE]
    /\ sources = <<>>
    /\ activeSoundPlayers = [a \in Actors |-> [h \in Sounds |-> Null]]
    /\ pitchEffect = [a \in Actors |-> [value |-> 0, ratio |-> getRatio(0)]]
    /\ panEffect = [a \in Actors |-> 0]
    /\ gain = [a \in Actors |-> OneGain]
    /\ currentTempo = 60
    /\ waits = <<>>
    /\ notes = 0
    /\ lastCall = Event

\* ----------------------------------------------------------- AudioEngine
\* Faulty variant of DecodeSound: a buffer that is still to be filled is put in
\* the cache when the decode begins.
DecodeSoundEager(md5, format) ==
    /\ format \in {"", "adpcm"}
    /\ pendingDecodes[md5] < MaxPending
    /\ pendingDecodes' = [pendingDecodes EXCEPT ![md5] = @ + 1]
    /\ audioBuffers' = [audioBuffers EXCEPT ![md5] = IF @ = "none" THEN "loading" ELSE @]
    /\ lastCall' = Call("decodeSound", Null, "promise")
    /\ UNCHANGED <<players, drumSounds, drumLoaded, sources, activeSoundPlayers,
                   pitchEffect, panEffect, gain, currentTempo, waits, notes>>

\* decodeSound: an unknown format returns at once; otherwise a loaderPromise is
\* pending until the decoder settles it.
DecodeSound(md5, format) ==
    /\ IF format \in {"", "adpcm"}
       THEN /\ pendingDecodes[md5] < MaxPending
            /\ pendingDecodes' = [pendingDecodes EXCEPT ![md5] = @ + 1]
            /\ lastCall' = Call("decodeSound", Null, "promise")
       ELSE /\ UNCHANGED pendingDecodes
            /\ lastCall' = Call("decodeSound", Null, "undefined")
    /\ UNCHANGED <<audioBuffers, players, drumSounds, drumLoaded, sources,
                   activeSoundPlayers, pitchEffect, panEffect, gain, currentTempo,
                   waits, notes>>

\* The loaderPromise fulfils: the decoded audio is stored under the md5.
DecodeResolved(md5) ==
    /\ pendingDecodes[md5] > 0
    /\ pendingDecodes' = [pendingDecodes EXCEPT ![md5] = @ - 1]
    /\ audioBuffers' = [audioBuffers EXCEPT ![md5] = "loaded"]
    /\ lastCall' = Event
    /\ UNCHANGED <<players, drumSounds, drumLoaded, sources, activeSoundPlayers,
                   pitchEffect, panEffect, gain, currentTempo, waits, notes>>

\* Faulty variant of DecodeRejected: the failure evicts the md5 from the cache
\* and the rejection is passed on to the caller.
DecodeRejectedEvicts(md5) ==
    /\ pendingDecodes[md5] > 0
    /\ pendingDecodes' = [pendingDecodes EXCEPT ![md5] = @ - 1]
    /\ audioBuffers' = [audioBuffers EXCEPT ![md5] = "none"]
    /\ lastCall' = Call("decodeFailed", Null, "rejected")
    /\ UNCHANGED <<players, drumSounds, drumLoaded, sources, activeSoundPlayers,
                   pitchEffect, panEffect, gain, currentTempo, waits, notes>>

\* The loaderPromise rejects: the second handler of then() logs a warning and
\* returns, so the promise that decodeSound returned resolves.
DecodeRejected(md5) ==
    /\ pendingDecodes[md5] > 0
    /\ pendingDecodes' = [pendingDecodes EXCEPT ![md5] = @ - 1]
    /\ lastCall' = Call("decodeFailed", Null, "resolved")
    /\ UNCHANGED <<audioBuffers, players, drumSounds, drumLoaded, sources,
                   activeSoundPlayers, pitchEffect, panEffect, gain, currentTempo,
                   waits, notes>>

\* A drum's Tone.Buffer(url) finishes loading.
DrumBufferLoaded(d) ==
    /\ ~drumLoaded[d]
    /\ drumLoaded' = [drumLoaded EXCEPT ![d] = TRUE]
    /\ lastCall' = Event
    /\ UNCHANGED <<audioBuffers, pendingDecodes, players, drumSounds, sources,
                   activeSoundPlayers, pitchEffect, panEffect, gain, currentTempo,
                   waits, notes>>

\* ----------------------------------------------------------- AudioPlayer
\* Faulty variant of prune: the loop is left out.
pruneNothing(registry, ps) == registry

\* Faulty variant of prune: the test of isPlaying is inverted.
pruneInverted(registry, ps) ==
    [h \in Sounds |->
        IF registry[h] # Null /\ ps[registry[h]].isPlaying THEN Null ELSE registry[h]]

\* The registry after playSound's pruning loop: entries that are not playing
\* are deleted.
prune(registry, ps) ==
    [h \in Sounds |->
        IF registry[h] # Null /\ ~ps[registry[h]].isPlaying THEN Null ELSE registry[h]]

\* playSound.  An md5 that is not in the cache: return.  Otherwise
\* (playCachedSound) stop the player registered under the md5, create, tune and
\* start a new one, register it, prune the registry and return the new player's
\* finished() promise.
playCachedSound(a, md5) ==
         /\ Len(sources) < MaxSources
         /\ LET prev == activeSoundPlayers[a][md5]
                ps1 == IF prev # Null THEN [players EXCEPT ![prev] = stop(@)] ELSE players
                srcs1 == IF prev # Null THEN stopSource(sources, players[prev]) ELSE sources
                id == Len(players) + 1
                created == setPlaybackRate(
                               connect(setBuffer(NewSoundPlayer, SoundBuffer(md5)),
                                       effectsNode(a)),
                               pitchEffect[a].ratio)
                player == start(created, srcs1)
                srcs2 == startSource(srcs1, created)
                ps2 == Append(ps1, player)
                registry == prune([activeSoundPlayers[a] EXCEPT ![md5] = id], ps2)
            IN  /\ players' = [ps2 EXCEPT ![id] = finished(@)]
                /\ sources' = finishedSource(srcs2, player, id)
                /\ activeSoundPlayers' = [activeSoundPlayers EXCEPT ![a] = registry]
                /\ lastCall' = Call("playSound", a, players'[id].promise)
         /\ UNCHANGED <<audioBuffers, pendingDecodes, drumSounds, drumLoaded,
                        pitchEffect, panEffect, gain, currentTempo, waits, notes>>

\* Faulty variant of PlaySound: the cache is not consulted first.
PlaySoundUnchecked(a, md5) == playCachedSound(a, md5)

PlaySound(a, md5) ==
    IF audioBuffers[md5] = "none"
    THEN /\ lastCall' = Call("playSound", a, "undefined")
         /\ UNCHANGED <<audioBuffers, pendingDecodes, players, drumSounds, drumLoaded,
                        sources, activeSoundPlayers, pitchEffect, panEffect, gain,
                        currentTempo, waits, notes>>
    ELSE playCachedSound(a, md5)

\* DrumPlayer.stopAll
drumStopAll(ds) == [d \in Drums |-> stop(ds[d])]

drumStopAllSources(srcs, ds) ==
    [s \in DOMAIN srcs |->
        IF \E d \in Drums : ds[d].bufferSource = s
        THEN sourceStop(srcs, s)[s] ELSE srcs[s]]

\* The registry's players stopped, in stopAllSounds.
stopRegistry(ps, registry) ==
    [i \in DOMAIN ps |-> IF \E h \in Sounds : registry[h] = i THEN stop(ps[i]) ELSE ps[i]]

stopRegistrySources(srcs, ps, registry) ==
    [s \in DOMAIN srcs |->
        IF \E h \in Sounds : registry[h] # Null /\ ps[registry[h]].bufferSource = s
        THEN sourceStop(srcs, s)[s] ELSE srcs[s]]

\* InstrumentPlayer.stopAll: no note stays in flight.
instrumentStopAll(n) == 0

\* stopAllSounds: the registry's players, then the instruments, then the drums.
StopAllSounds(a) ==
    /\ players' = stopRegistry(players, activeSoundPlayers[a])
    /\ notes' = instrumentStopAll(notes)
    /\ drumSounds' = drumStopAll(drumSounds)
    /\ sources' = drumStopAllSources(
                      stopRegistrySources(sources, players, activeSoundPlayers[a]),
                      drumSounds)
    /\ lastCall' = Call("stopAllSounds", a, "undefined")
    /\ UNCHANGED <<audioBuffers, pendingDecodes, drumLoaded, activeSoundPlayers,
                   pitchEffect, panEffect, gain, currentTempo, waits>>

\* Faulty variant of DrumStopAll: stopping the drums cancels the waits of the
\* drum hits.
DrumStopAllCancels ==
    /\ drumSounds' = drumStopAll(drumSounds)
    /\ sources' = drumStopAllSources(sources, drumSounds)
    /\ waits' = <<>>
    /\ lastCall' = Call("drumStopAll", Null, "undefined")
    /\ UNCHANGED <<audioBuffers, pendingDecodes, players, drumLoaded,
                   activeSoundPlayers, pitchEffect, panEffect, gain, currentTempo,
                   notes>>

\* drumPlayer.stopAll(), called on the engine's drum player directly.
DrumStopAll ==
    /\ drumSounds' = drumStopAll(drumSounds)
    /\ sources' = drumStopAllSources(sources, drumSounds)
    /\ lastCall' = Call("drumStopAll", Null, "undefined")
    /\ UNCHANGED <<audioBuffers, pendingDecodes, players, drumLoaded,
                   activeSoundPlayers, pitchEffect, panEffect, gain, currentTempo,
                   waits, notes>>

\* PitchEffect.set(value, players)
pitchSet(value) == [value |-> value, ratio |-> getRatio(value)]

\* PanEffect.set(value): the pan, kept within -100..100.
panSet(value) == IF value > 100 THEN 100 ELSE IF value < -100 THEN -100 ELSE value

\* setEffect: pitch retunes the registry's players, pan sets the pan, any other
\* name falls through the switch.
SetEffect(a, effect, value) ==
    /\ CASE effect = "pitch" ->
              /\ pitchEffect' = [pitchEffect EXCEPT ![a] = pitchSet(value)]
              /\ players' = updatePlayers(players, activeSoundPlayers[a], getRatio(value))
              /\ sources' = updatePlayersSources(sources, players, activeSoundPlayers[a],
                                                 getRatio(value))
              /\ UNCHANGED panEffect
         [] effect = "pan" ->
              /\ panEffect' = [panEffect EXCEPT ![a] = panSet(value)]
              /\ UNCHANGED <<pitchEffect, players, sources>>
         [] OTHER -> UNCHANGED <<pitchEffect, panEffect, players, sources>>
    /\ lastCall' = Call("setEffect", a, "undefined")
    /\ UNCHANGED <<audioBuffers, pendingDecodes, drumSounds, drumLoaded,
                   activeSoundPlayers, gain, currentTempo, waits, notes>>

\* Faulty variant of ClearEffects: the gain is left as it is.
ClearEffectsKeepsVolume(a) ==
    /\ panEffect' = [panEffect EXCEPT ![a] = panSet(0)]
    /\ pitchEffect' = [pitchEffect EXCEPT ![a] = pitchSet(0)]
    /\ players' = updatePlayers(players, activeSoundPlayers[a], getRatio(0))
    /\ sources' = updatePlayersSources(sources, players, activeSoundPlayers[a],
                                       getRatio(0))
    /\ lastCall' = Call("clearEffects", a, "undefined")
    /\ UNCHANGED <<audioBuffers, pendingDecodes, drumSounds, drumLoaded, gain,
                   activeSoundPlayers, currentTempo, waits, notes>>

\* Faulty variant of ClearEffects: the pitch is reset without the registry, as
\* in the constructor's call.
ClearEffectsLikeConstructor(a) ==
    /\ panEffect' = [panEffect EXCEPT ![a] = panSet(0)]
    /\ pitchEffect' = [pitchEffect EXCEPT ![a] = pitchSet(0)]
    /\ gain' = [gain EXCEPT ![a] = OneGain]
    /\ lastCall' = Call("clearEffects", a, "undefined")
    /\ UNCHANGED <<audioBuffers, pendingDecodes, players, sources, drumSounds,
                   drumLoaded, activeSoundPlayers, currentTempo, waits, notes>>

\* clearEffects: pan 0, pitch 0 on the registry's players, gain 1.
ClearEffects(a) ==
    /\ panEffect' = [panEffect EXCEPT ![a] = panSet(0)]
    /\ pitchEffect' = [pitchEffect EXCEPT ![a] = pitchSet(0)]
    /\ players' = updatePlayers(players, activeSoundPlayers[a], getRatio(0))
    /\ sources' = updatePlayersSources(sources, players, activeSoundPlayers[a], getRatio(0))
    /\ gain' = [gain EXCEPT ![a] = OneGain]
    /\ lastCall' = Call("clearEffects", a, "undefined")
    /\ UNCHANGED <<audioBuffers, pendingDecodes, drumSounds, drumLoaded,
                   activeSoundPlayers, currentTempo, waits, notes>>

\* setVolume: gain = value / 100
SetVolume(a, value) ==
    /\ gain' = [gain EXCEPT ![a] = (value * OneGain) \div 100]
    /\ lastCall' = Call("setVolume", a, "undefined")
    /\ UNCHANGED <<audioBuffers, pendingDecodes, players, drumSounds, drumLoaded,
                   sources, activeSoundPlayers, pitchEffect, panEffect, currentTempo,
                   waits, notes>>

\* ------------------------------------------------------ tempo and waits
\* beatsToSec: (60 / currentTempo) * beats, in thousandths of a second.
beatsToSec(beats) == ((60 * 1000) \div currentTempo) * beats

\* waitForBeats: a promise and a timer of beatsToSec(beats) * 1000 milliseconds.
\* `elapsed` is the time since the call, in milliseconds; `tempo` and `by` are
\* history: the tempo at the call and the operation that made the call.
waitForBeats(beats, by) ==
    [beats |-> beats, delay |-> beatsToSec(beats), tempo |-> currentTempo,
     elapsed |-> 0, by |-> by]

WaitForBeats(beats) ==
    /\ Len(waits) < MaxWaits
    /\ waits' = Append(waits, waitForBeats(beats, "waitForBeats"))
    /\ lastCall' = Call("waitForBeats", Null, "promise")
    /\ UNCHANGED <<audioBuffers, pendingDecodes, players, drumSounds, drumLoaded,
                   sources, activeSoundPlayers, pitchEffect, panEffect, gain,
                   currentTempo, notes>>

SetTempo(value) ==
    /\ currentTempo' = value
    /\ lastCall' = Call("setTempo", Null, "undefined")
    /\ UNCHANGED <<audioBuffers, pendingDecodes, players, drumSounds, drumLoaded,
                   sources, activeSoundPlayers, pitchEffect, panEffect, gain, waits,
                   notes>>

\* changeTempo: setTempo(currentTempo + value); callers keep the tempo positive.
ChangeTempo(value) ==
    /\ currentTempo + value \in TempoValues
    /\ currentTempo' = currentTempo + value
    /\ lastCall' = Call("changeTempo", Null, "undefined")
    /\ UNCHANGED <<audioBuffers, pendingDecodes, players, drumSounds, drumLoaded,
                   sources, activeSoundPlayers, pitchEffect, panEffect, gain, waits,
                   notes>>

\* Faulty variant of remaining: the delay is taken at the tempo of the moment.
remainingAtCurrentTempo(w) == beatsToSec(w.beats) - w.elapsed

\* The time left on the timer of a wait: its delay was fixed at the call.
remaining(w) == w.delay - w.elapsed

\* Whether the timer of a wait has run out.
timerDue(w) == remaining(w) <= 0

\* Time passes, up to the moment the next timer runs out.
RECURSIVE MinRemaining(_, _)
MinRemaining(ws, i) ==
    IF i = Len(ws) THEN remaining(ws[i])
    ELSE LET m == MinRemaining(ws, i + 1)
         IN IF remaining(ws[i]) < m THEN remaining(ws[i]) ELSE m

TimePasses ==
    /\ waits # <<>>
    /\ \A i \in DOMAIN waits : ~timerDue(waits[i])
    /\ LET dt == MinRemaining(waits, 1)
       IN waits' = [i \in DOMAIN waits |-> [waits[i] EXCEPT !.elapsed = @ + dt]]
    /\ lastCall' = Event
    /\ UNCHANGED <<audioBuffers, pendingDecodes, players, drumSounds, drumLoaded,
                   sources, activeSoundPlayers, pitchEffect, panEffect, gain,
                   currentTempo, notes>>

\* A timer that has run out fires: the promise of its wait resolves.
TimerFires(i) ==
    /\ i \in DOMAIN waits
    /\ timerDue(waits[i])
    /\ waits' = [j \in 1..(Len(waits) - 1) |-> IF j < i THEN waits[j] ELSE waits[j + 1]]
    /\ lastCall' = Event
    /\ UNCHANGED <<audioBuffers, pendingDecodes, players, drumSounds, drumLoaded,
                   sources, activeSoundPlayers, pitchEffect, panEffect, gain,
                   currentTempo, notes>>

\* ------------------------------------------------- drums and instruments
\* DrumPlayer.play: the drum's player is pointed at the caller's node and started.
drumPlay(ds, d, outputNode, srcs) ==
    [ds EXCEPT ![d] = start([@ EXCEPT !.outputNode = outputNode], srcs)]

drumPlaySources(srcs, ds, d, outputNode) ==
    startSource(srcs, [ds[d] EXCEPT !.outputNode = outputNode])

\* playDrumForBeats: play the drum on the actor's effects node, then wait.
PlayDrumForBeats(a, d, beats) ==
    /\ Len(sources) < MaxSources
    /\ Len(waits) < MaxWaits
    /\ drumSounds' = drumPlay(drumSounds, d, effectsNode(a), sources)
    /\ sources' = drumPlaySources(sources, drumSounds, d, effectsNode(a))
    /\ waits' = Append(waits, waitForBeats(beats, "playDrumForBeats"))
    /\ lastCall' = Call("playDrumForBeats", a, "promise")
    /\ UNCHANGED <<audioBuffers, pendingDecodes, players, drumLoaded,
                   activeSoundPlayers, pitchEffect, panEffect, gain, currentTempo,
                   notes>>

\* new InstrumentPlayer(this.input): every note goes to the engine's input;
\* playNoteForBeatsWithInstAndVol takes no actor and no output node.
instrumentOutputNode == EngineInput

\* playNoteForBeatsWithInstAndVol: the instrument player plays a note for
\* beatsToSec(beats) seconds, then wait.
PlayNoteForBeats(beats) ==
    /\ notes < MaxNotes
    /\ Len(waits) < MaxWaits
    /\ notes' = notes + 1
    /\ waits' = Append(waits, waitForBeats(beats, "playNoteForBeats"))
    /\ lastCall' = Call("playNoteForBeats", Null, "promise")
    /\ UNCHANGED <<audioBuffers, pendingDecodes, players, drumSounds, drumLoaded,
                   sources, activeSoundPlayers, pitchEffect, panEffect, gain,
                   currentTempo>>

\* An instrument note reaches the end of its duration.
NoteEnds ==
    /\ notes > 0
    /\ notes' = notes - 1
    /\ lastCall' = Event
    /\ UNCHANGED <<audioBuffers, pendingDecodes, players, drumSounds, drumLoaded,
                   sources, activeSoundPlayers, pitchEffect, panEffect, gain,
                   currentTempo, waits>>

\* -------------------------------------------------------- the audio graph
\* A playing buffer source reaches the end of its buffer: its ended event is queued.
SourceEnds(s) ==
    /\ s \in DOMAIN sources
    /\ sources[s].state = "playing"
    /\ sources' = [sources EXCEPT ![s].state = "finished"]
    /\ lastCall' = Event
    /\ UNCHANGED <<audioBuffers, pendingDecodes, players, drumSounds, drumLoaded,
                   activeSoundPlayers, pitchEffect, panEffect, gain, currentTempo,
                   waits, notes>>

\* The ended event of a buffer source is dispatched to its onended handler, if
\* any.  lastCall records how the source came to end, and whether a handler ran.
EndedEvent(s) ==
    /\ s \in DOMAIN sources
    /\ sources[s].state \in {"stopped", "finished"}
    /\ sources' = [sources EXCEPT ![s].state = "ended"]
    /\ players' = IF sources[s].onended # Null
                  THEN [players EXCEPT ![sources[s].onended] = onended(@)]
                  ELSE players
    /\ lastCall' = Call(sources[s].state, Null,
                        IF sources[s].onended # Null THEN "resolved" ELSE "undefined")
    /\ UNCHANGED <<audioBuffers, pendingDecodes, drumSounds, drumLoaded,
                   activeSoundPlayers, pitchEffect, panEffect, gain, currentTempo,
                   waits, notes>>

\* ------------------------------------------------------- specifications
Next ==
    \/ \E h \in Sounds, f \in Formats : DecodeSound(h, f)
    \/ \E h \in Sounds : DecodeResolved(h)
    \/ \E h \in Sounds : DecodeRejected(h)
    \/ \E d \in Drums : DrumBufferLoaded(d)
    \/ \E a \in Actors, h \in Sounds : PlaySound(a, h)
    \/ \E a \in Actors : StopAllSounds(a)
    \/ DrumStopAll
    \/ \E a \in Actors, e \in EffectNames, v \in PitchValues \cup PanValues : SetEffect(a, e, v)
    \/ \E a \in Actors : ClearEffects(a)
    \/ \E a \in Actors, v \in VolumeValues : SetVolume(a, v)
    \/ \E b \in Beats : WaitForBeats(b)
    \/ \E v \in TempoValues : SetTempo(v)
    \/ \E v \in TempoDeltas : ChangeTempo(v)
    \/ TimePasses
    \/ \E i \in 1..MaxWaits : TimerFires(i)
    \/ \E a \in Actors, d \in Drums, b \in Beats : PlayDrumForBeats(a, d, b)
    \/ \E b \in Beats : PlayNoteForBeats(b)
    \/ NoteEnds
    \/ \E s \in 1..MaxSources : SourceEnds(s)
    \/ \E s \in 1..MaxSources : EndedEvent(s)

Spec == Init /\ [][Next]_vars

\* The sounds of all actors: decoding, playSound, stopAllSounds and the ended
\* events.
NextPlay ==
    \/ \E h \in Sounds, f \in Formats : DecodeSound(h, f)
    \/ \E h \in Sounds : DecodeResolved(h)
    \/ \E h \in Sounds : DecodeRejected(h)
    \/ \E a \in Actors, h \in Sounds : PlaySound(a, h)
    \/ \E a \in Actors : StopAllSounds(a)
    \/ \E s \in 1..MaxSources : SourceEnds(s)
    \/ \E s \in 1..MaxSources : EndedEvent(s)

SpecPlay == Init /\ [][NextPlay]_vars

\* One actor.
Soloist == {1}

\* The sounds of one actor, decoded from one format.
NextSolo ==
    \/ \E h \in Sounds : DecodeSound(h, "")
    \/ \E h \in Sounds : DecodeResolved(h)
    \/ \E a \in Soloist, h \in Sounds : PlaySound(a, h)
    \/ \E a \in Soloist : StopAllSounds(a)
    \/ \E s \in 1..MaxSources : SourceEnds(s)
    \/ \E s \in 1..MaxSources : EndedEvent(s)

\* A buffer is finite and rates are positive, so a playing buffer source
\* finishes; the event loop dispatches every queued ended event.
LiveSpecPlay ==
    /\ Init /\ [][NextSolo]_vars
    /\ \A s \in 1..MaxSources : WF_vars(SourceEnds(s)) /\ WF_vars(EndedEvent(s))

\* The effects of one actor on its sounds.

NextPitch ==
    \/ \E h \in Sounds : DecodeSound(h, "adpcm")
    \/ \E h \in Sounds : DecodeResolved(h)
    \/ \E a \in Soloist, h \in Sounds : PlaySound(a, h)
    \/ \E a \in Soloist, v \in PitchValues : SetEffect(a, "pitch", v)
    \/ \E a \in Soloist, v \in PanValues : SetEffect(a, "pan", v)
    \/ \E a \in Soloist : ClearEffects(a)
    \/ \E s \in 1..MaxSources : SourceEnds(s)
    \/ \E s \in 1..MaxSources : EndedEvent(s)

SpecPitch == Init /\ [][NextPitch]_vars

\* The drums of all actors, with one sound of one actor.
DrumSound == {1}
DrumBeats == {1}

NextDrum ==
    \/ \E d \in Drums : DrumBufferLoaded(d)
    \/ \E h \in DrumSound : DecodeSound(h, "")
    \/ \E h \in DrumSound : DecodeResolved(h)
    \/ \E a \in Soloist, h \in DrumSound : PlaySound(a, h)
    \/ \E a \in Actors : StopAllSounds(a)
    \/ DrumStopAll
    \/ TimePasses
    \/ \E i \in 1..MaxWaits : TimerFires(i)
    \/ \E a \in Actors, d \in Drums, b \in DrumBeats : PlayDrumForBeats(a, d, b)
    \/ \E s \in 1..MaxSources : SourceEnds(s)
    \/ \E s \in 1..MaxSources : EndedEvent(s)

SpecDrum == Init /\ [][NextDrum]_vars

\* The same with the instrument notes.
NextStopAll ==
    \/ NextDrum
    \/ \E b \in DrumBeats : PlayNoteForBeats(b)
    \/ NoteEnds

SpecStopAll == Init /\ [][NextStopAll]_vars

\* The tempo and the waits.
NextTempo ==
    \/ \E b \in Beats : WaitForBeats(b)
    \/ \E v \in TempoValues : SetTempo(v)
    \/ \E v \in TempoDeltas : ChangeTempo(v)
    \/ TimePasses
    \/ \E i \in 1..MaxWaits : TimerFires(i)
    \/ \E a \in Actors, d \in Drums, b \in Beats : PlayDrumForBeats(a, d, b)

SpecTempo == Init /\ [][NextTempo]_vars

\* The effects and the volume of two actors on one sound; an instance ends by
\* being replaced.
ScopePitches == {0, 120}

NextScope ==
    \/ \E h \in DrumSound : DecodeSound(h, "")
    \/ \E h \in DrumSound : DecodeResolved(h)
    \/ \E a \in Actors, h \in DrumSound : PlaySound(a, h)
    \/ \E a \in Actors, v \in ScopePitches : SetEffect(a, "pitch", v)
    \/ \E a \in Actors, v \in PanValues : SetEffect(a, "pan", v)
    \/ \E a \in Actors : ClearEffects(a)
    \/ \E a \in Actors, v \in VolumeValues : SetVolume(a, v)
    \/ \E s \in 1..MaxSources : EndedEvent(s)

SpecScope == Init /\ [][NextScope]_vars

\* The wait of a drum hit of one actor, with the tempo changing and the drum
\* stopped while the wait runs.
NextDrumWait ==
    \/ \E d \in Drums : DrumBufferLoaded(d)
    \/ \E a \in Soloist, d \in Drums, b \in Beats : PlayDrumForBeats(a, d, b)
    \/ \E v \in TempoValues : SetTempo(v)
    \/ TimePasses
    \/ \E i \in 1..MaxWaits : TimerFires(i)
    \/ DrumStopAll
    \/ \E a \in Soloist : StopAllSounds(a)
    \/ \E s \in 1..MaxSources : SourceEnds(s)
    \/ \E s \in 1..MaxSources : EndedEvent(s)

SpecDrumWait == Init /\ [][NextDrumWait]_vars

\* ---------------------------------------------------------------------------
\* Properties

\* The players that playSound made for sound md5 of actor a.
Instances(a, md5) ==
    {i \in DOMAIN players : /\ players[i].outputNode = effectsNode(a)
                            /\ players[i].buffer = SoundBuffer(md5)}

\* The buffer source of player i is audible.
UnitPlaying(i) ==
    /\ players[i].bufferSource # Null
    /\ sources[players[i].bufferSource].state = "playing"

InPlayingState(i) == players[i].isPlaying \/ UnitPlaying(i)

\* C1: for one sound of one actor at most one instance is in the playing
\* state; an instance in the playing state is the registered one, the one
\* made by the most recent playSound of that sound.
C1_AtMostOnePlaying ==
    \A a \in Actors, h \in Sounds :
        \A i \in Instances(a, h) :
            InPlayingState(i) =>
                /\ activeSoundPlayers[a][h] = i
                /\ \A j \in Instances(a, h) : j <= i

\* A playSound replaced an instance that was playing: the prior instance is
\* stopped, its ended event still to come, and the new one plays.
C1_Replaced ==
    /\ lastCall.op = "playSound"
    /\ \E h \in Sounds : \E i, j \in Instances(lastCall.actor, h) :
        /\ i < j
        /\ ~players[i].isPlaying
        /\ sources[players[i].bufferSource].state = "stopped"
        /\ players[j].isPlaying
        /\ UnitPlaying(j)

\* The playback rate of a pitch value, 2^(pitch/120) of the rate 1.
RateOf(pitch) ==
    CASE pitch = -120 -> OneRate \div 2
      [] pitch = 0 -> OneRate
      [] pitch = 120 -> OneRate * 2

\* Every registered playing instance of the registry runs, player and buffer
\* source, at the rate of the pitch.
TunedIn(ps, srcs, registry, pitch) ==
    \A h \in Sounds :
        (registry[h] # Null /\ ps[registry[h]].isPlaying) =>
            /\ ps[registry[h]].playbackRate = RateOf(pitch.value)
            /\ srcs[ps[registry[h]].bufferSource].playbackRate = RateOf(pitch.value)

\* No instance was started, stopped or replaced by the step.
SameUnits ==
    /\ Len(sources') = Len(sources)
    /\ Len(players') = Len(players)
    /\ \A s \in DOMAIN sources : sources'[s].state = sources[s].state
    /\ \A i \in DOMAIN players :
        /\ players'[i].bufferSource = players[i].bufferSource
        /\ players'[i].isPlaying = players[i].isPlaying
    /\ activeSoundPlayers' = activeSoundPlayers

\* C2: setting the pitch of an actor retunes, in flight and without a
\* restart, every registered playing instance of the actor to 2^(pitch/120),
\* and an instance that playSound starts afterwards starts at the rate of the
\* pitch of that moment.
C2_PitchRetunes ==
    [][\A a \in Actors :
        /\ TunedIn(players', sources', activeSoundPlayers'[a], pitchEffect'[a])
        /\ (lastCall'.op = "setEffect" /\ lastCall'.actor = a) =>
            /\ SameUnits
            /\ \A v \in PitchValues :
                SetEffect(a, "pitch", v) => pitchEffect'[a].value = v]_vars

\* A setEffect left two playing instances of the actor at half the rate.
C2_RetunedInFlight ==
    /\ lastCall.op = "setEffect"
    /\ pitchEffect[lastCall.actor].value = -120
    /\ \A h \in Sounds :
        LET i == activeSoundPlayers[lastCall.actor][h] IN
        /\ i # Null
        /\ players[i].isPlaying
        /\ UnitPlaying(i)
        /\ sources[players[i].bufferSource].playbackRate = OneRate \div 2

\* C3: playSound of an md5 that is not in the cache returns undefined and
\* makes, stops and registers nothing.
C3_UnknownSoundIgnored ==
    [][\A a \in Actors, h \in Sounds :
        (audioBuffers[h] = "none" /\ PlaySound(a, h)) =>
            /\ lastCall'.ret = "undefined"
            /\ players' = players
            /\ sources' = sources
            /\ drumSounds' = drumSounds
            /\ activeSoundPlayers' = activeSoundPlayers]_vars

\* A playSound of an unknown md5 has returned undefined while an instance of
\* another sound goes on playing.
C3_IgnoredWhilePlaying ==
    /\ lastCall.op = "playSound"
    /\ lastCall.ret = "undefined"
    /\ \E i \in DOMAIN players : players[i].isPlaying /\ UnitPlaying(i)

\* The buffer sources that play a drum.
DrumUnitsPlaying ==
    {s \in DOMAIN sources : sources[s].buffer[1] = "drum" /\ sources[s].state = "playing"}

\* C4: after the drum bank's stopAll, alone or within stopAllSounds, no drum
\* sound is playing.
C4_StopAllStopsEveryDrum ==
    lastCall.op \in {"drumStopAll", "stopAllSounds"} => DrumUnitsPlaying = {}

\* C5: after stopAllSounds of an actor no registered instance of the actor
\* is playing, no instrument note sounds and no drum sound is playing.
C5_StopAllSoundsStopsAll ==
    lastCall.op = "stopAllSounds" =>
        /\ \A h \in Sounds :
            activeSoundPlayers[lastCall.actor][h] # Null =>
                ~InPlayingState(activeSoundPlayers[lastCall.actor][h])
        /\ notes = 0
        /\ \A d \in Drums : ~drumSounds[d].isPlaying
        /\ DrumUnitsPlaying = {}

\* The buffer sources that the player of drum d has started.
DrumUnits(d) == {s \in DOMAIN sources : sources[s].buffer = DrumBuffer(d)}

C7_ResolvesExactlyOnce ==
    \A i \in 1..MaxSources :
        /\ [](i \in DOMAIN players => players[i].resolved <= 1)
        /\ (i \in DOMAIN players /\ players[i].promise = "pending")
              ~> (/\ i \in DOMAIN players
                  /\ players[i].promise = "resolved"
                  /\ players[i].resolved = 1)

\* The ended event of a stopped buffer source has just resolved the promise
\* of its player, once.
C7_ResolvedAfterStop ==
    /\ lastCall.op = "stopped"
    /\ lastCall.ret = "resolved"
    /\ \E i \in DOMAIN players :
        /\ players[i].promise = "resolved"
        /\ players[i].resolved = 1
        /\ ~players[i].isPlaying

\* Sound h of actor a was played twice, the second play replacing the first:
\* i is the first call's instance, j the second's.
PlayedTwice(a, h, i, j) ==
    /\ i \in Instances(a, h)
    /\ j \in Instances(a, h)
    /\ i < j
    /\ activeSoundPlayers[a][h] = j

\* C8 as stated: the promise of the first of two successive calls, whose
\* instance the second call stopped, is never resolved.
C8_FirstNeverFires ==
    \A a \in Actors, h \in Sounds : \A i, j \in DOMAIN players :
        (PlayedTwice(a, h, i, j) /\ lastCall.op = "stopped") =>
            players[i].promise # "resolved"

\* C8: the promise of every call is pending exactly while the ended event of
\* its buffer source, playing, stopped or finished, is still to be dispatched
\* to its handler, and it is resolved, once, from then on: of two successive
\* calls both promises fire once, the first on the ended event of the stopped
\* buffer source.
C8_BothNotificationsFire ==
    \A i \in DOMAIN players :
        LET p == players[i] IN
        /\ p.bufferSource # Null
        /\ p.promise \in {"pending", "resolved"}
        /\ p.promise = "pending" =>
            /\ p.resolved = 0
            /\ sources[p.bufferSource].onended = i
            /\ sources[p.bufferSource].state \in {"playing", "stopped", "finished"}
        /\ p.promise = "resolved" =>
            /\ p.resolved = 1
            /\ sources[p.bufferSource].state = "ended"

\* The first call's promise has just been resolved by the ended event of its
\* stopped buffer source while the second call's instance plays on, pending.
C8_FirstFiredSecondPending ==
    /\ lastCall.op = "stopped"
    /\ lastCall.ret = "resolved"
    /\ \E a \in Actors, h \in Sounds : \E i, j \in DOMAIN players :
        /\ PlayedTwice(a, h, i, j)
        /\ players[i].promise = "resolved"
        /\ players[i].resolved = 1
        /\ players[j].promise = "pending"
        /\ UnitPlaying(j)

\* The milliseconds of w.beats beats at the tempo of the call of the wait.
Duration(w) == (60 * 1000 * w.beats) \div w.tempo

\* C9: a wait never runs beyond 60000 * beats / tempo milliseconds, tempo
\* being the tempo at its call, and its timer is due exactly then, whatever
\* the tempo has been set to since.
C9_WaitKeepsItsTempo ==
    \A i \in DOMAIN waits :
        /\ waits[i].elapsed <= Duration(waits[i])
        /\ timerDue(waits[i]) <=> waits[i].elapsed = Duration(waits[i])

\* A wait has come due at the duration of its own tempo after the tempo was
\* set to another value.
C9_DueAfterTempoChange ==
    \E i \in DOMAIN waits :
        /\ timerDue(waits[i])
        /\ waits[i].tempo # currentTempo
        /\ waits[i].by = "waitForBeats"
        /\ waits[i].elapsed = Duration(waits[i])

\* C10: after clearEffects of an actor its pitch is 0 with ratio 1, its pan
\* is 0 and its gain is 1, and every registered playing instance of the
\* actor runs, player and buffer source, at rate 1.
C10_ClearEffectsResets ==
    lastCall.op = "clearEffects" =>
        LET a == lastCall.actor IN
        /\ pitchEffect[a].value = 0
        /\ pitchEffect[a].ratio = OneRate
        /\ panEffect[a] = 0
        /\ gain[a] = OneGain
        /\ \A h \in Sounds :
            LET i == activeSoundPlayers[a][h] IN
            (i # Null /\ players[i].isPlaying) =>
                /\ players[i].playbackRate = OneRate
                /\ sources[players[i].bufferSource].playbackRate = OneRate

\* clearEffects has reset an actor with a playing instance, while an ended
\* instance of the actor keeps the rate of the pitch that was in force.
C10_ClearedWhilePlaying ==
    /\ lastCall.op = "clearEffects"
    /\ \E i, j \in DOMAIN players :
        /\ players[i].outputNode = effectsNode(lastCall.actor)
        /\ players[j].outputNode = effectsNode(lastCall.actor)
        /\ players[i].playbackRate # OneRate
        /\ ~players[i].isPlaying
        /\ players[j].isPlaying
        /\ UnitPlaying(j)
        /\ players[j].playbackRate = OneRate

\* The effects nodes of the actors.
EffectsNodes == {effectsNode(a) : a \in Actors}

\* C11: the buffer source of a drum hit is connected to the effects node of
\* the actor whose playDrumForBeats started it, and a sounding instrument
\* note is connected to the effects node of an actor.
C11_RenderedToRequester ==
    /\ \A d \in Drums :
        (lastCall.op = "playDrumForBeats" /\ drumSounds[d].isPlaying
         /\ drumSounds[d].bufferSource = Len(sources)) =>
            sources[Len(sources)].out = effectsNode(lastCall.actor)
    /\ \A s \in DOMAIN sources :
        sources[s].buffer[1] = "drum" => sources[s].out \in EffectsNodes
    /\ notes > 0 => instrumentOutputNode \in EffectsNodes

\* stop() of player p, then stop() of it again, leaves what one stop() leaves.
StopTwice(p) ==
    /\ stop(stop(p)) = stop(p)
    /\ stopSource(stopSource(sources, p), stop(p)) = stopSource(sources, p)
    /\ ~stop(p).isPlaying
    /\ stop(p).playbackRate = p.playbackRate

\* C12: a second stop() of an instance changes nothing that the first left,
\* and a stopAllSounds of an actor right after a stopAllSounds of that actor
\* changes nothing at all: no instance plays again, the registry, the rates
\* and the drum players stay as they are.
C12_StopIsIdempotent ==
    [][/\ \A i \in DOMAIN players : StopTwice(players[i])
       /\ \A d \in Drums : StopTwice(drumSounds[d])
       /\ \A a \in Actors :
            (lastCall.op = "stopAllSounds" /\ lastCall.actor = a /\ StopAllSounds(a))
                => vars' = vars]_vars

\* stopAllSounds has run over a registered instance that had already ended,
\* its ended event dispatched, and over a drum player that had been stopped.
C12_StoppedAgain ==
    /\ lastCall.op = "stopAllSounds"
    /\ \E h \in Sounds :
        LET i == activeSoundPlayers[lastCall.actor][h] IN
        /\ i # Null
        /\ ~players[i].isPlaying
        /\ sources[players[i].bufferSource].state = "ended"
    /\ \E d \in Drums :
        /\ drumSounds[d].bufferSource # Null
        /\ ~drumSounds[d].isPlaying

\* The formats that decodeSound hands to a decoder.
KnownFormats == {"", "adpcm"}

\* C13: a decodeSound of an unrecognized format returns undefined, starts no
\* decode and leaves the cache as it is; a decode that fails leaves the cache
\* as it is and the promise that decodeSound returned resolves; a playSound of
\* an md5 that is then not in the cache returns undefined and makes no
\* instance.
C13_FailedDecodeRegistersNothing ==
    [][/\ \A h \in Sounds, f \in Formats \ KnownFormats :
            DecodeSound(h, f) =>
                /\ audioBuffers' = audioBuffers
                /\ pendingDecodes' = pendingDecodes
                /\ lastCall'.ret = "undefined"
       /\ lastCall'.op = "decodeFailed" =>
            /\ audioBuffers' = audioBuffers
            /\ lastCall'.ret = "resolved"
       /\ lastCall'.ret # "rejected"
       /\ \A a \in Actors, h \in Sounds :
            (audioBuffers[h] = "none" /\ PlaySound(a, h)) =>
                /\ lastCall'.ret = "undefined"
                /\ Len(players') = Len(players)
                /\ Len(sources') = Len(sources)]_vars

\* A decode has just failed with nothing pending any more and one sound is
\* still not in the cache while the other one is.
C13_DecodeFailed ==
    /\ lastCall.op = "decodeFailed"
    /\ \A h \in Sounds : pendingDecodes[h] = 0
    /\ \E h \in Sounds : audioBuffers[h] = "none"
    /\ \E h \in Sounds : audioBuffers[h] = "loaded"

\* C14: an md5 is either not in the cache or maps to a loaded buffer, so
\* every player that playSound makes from the cache gets a loaded buffer and
\* starts; and an md5 that is in the cache stays in it.
C14_CacheCompleteAndAppendOnly ==
    [][/\ \A h \in Sounds :
            /\ audioBuffers'[h] \in {"none", "loaded"}
            /\ audioBuffers[h] # "none" => audioBuffers'[h] = "loaded"
       /\ \A i \in DOMAIN players' :
            /\ players'[i].buffer[1] = "sound"
            /\ audioBuffers'[players'[i].buffer[2]] = "loaded"
            /\ players'[i].bufferSource # Null]_vars

\* A repeated decode of an md5 is pending while the md5 is in the cache and an
\* instance made from it plays; the last decode to settle failed.
C14_RepeatedDecode ==
    /\ \E h \in Sounds :
        /\ audioBuffers[h] = "loaded"
        /\ pendingDecodes[h] > 0
        /\ \E a \in Actors : \E i \in Instances(a, h) : UnitPlaying(i)
    /\ \E i \in DOMAIN players :
        players[i].promise = "resolved" /\ players[i].buffer[1] = "sound"

C16_RegistryPrunedOnReturn ==
    (lastCall.op = "playSound" /\ lastCall.ret # "undefined") =>
        LET registry == activeSoundPlayers[lastCall.actor] IN
        /\ \A h \in Sounds : registry[h] # Null => players[registry[h]].isPlaying
        /\ \E h \in Sounds :
            /\ registry[h] = Len(players)
            /\ Len(players) \in Instances(lastCall.actor, h)

\* A playSound has returned after pruning an instance of another sound of the
\* actor that had ended: it is no longer registered, and the new one is.
C16_PrunedOther ==
    /\ lastCall.op = "playSound"
    /\ lastCall.ret = "pending"
    /\ \E h, k \in Sounds : \E i \in Instances(lastCall.actor, h) :
        /\ h # k
        /\ ~players[i].isPlaying
        /\ activeSoundPlayers[lastCall.actor][h] = Null
        /\ activeSoundPlayers[lastCall.actor][k] = Len(players)

\* C17: every instance with isPlaying set, and every instance whose buffer
\* source is playing, is registered under its md5 in the registry of the actor
\* whose effects node it is connected to.
C17_PlayingIsRegistered ==
    \A i \in DOMAIN players :
        (players[i].isPlaying \/ UnitPlaying(i)) =>
            \E a \in Actors :
                /\ players[i].outputNode = effectsNode(a)
                /\ activeSoundPlayers[a][players[i].buffer[2]] = i

\* An ended event has just been dispatched while an instance plays on,
\* registered, and an instance that has ended is still in a registry.
C17_PlayingAfterEvents ==
    /\ lastCall.op \in {"stopped", "finished"}
    /\ \E i \in DOMAIN players : players[i].isPlaying /\ UnitPlaying(i)
    /\ \E a \in Actors, h \in Sounds :
        /\ activeSoundPlayers[a][h] # Null
        /\ ~players[activeSoundPlayers[a][h]].isPlaying

\* The step leaves actor b as it is: its pitch, pan, gain and registry, and
\* every player and buffer source connected to its effects node.
ActorUntouched(b) ==
    /\ pitchEffect'[b] = pitchEffect[b]
    /\ panEffect'[b] = panEffect[b]
    /\ gain'[b] = gain[b]
    /\ activeSoundPlayers'[b] = activeSoundPlayers[b]
    /\ \A i \in DOMAIN players :
        players[i].outputNode = effectsNode(b) => players'[i] = players[i]
    /\ \A s \in DOMAIN sources :
        sources[s].out = effectsNode(b) => sources'[s] = sources[s]

\* C18: a setEffect, clearEffects, setVolume or playSound of actor a leaves
\* every other actor's pitch, pan, gain, registry, players and buffer sources
\* as they are; and a setEffect of the pan sets the actor's pan and leaves
\* every pitch, gain, registry, player and buffer source as it is.
C18_EffectsAreActorScoped ==
    [][\A a \in Actors :
        /\ (lastCall'.op \in {"setEffect", "clearEffects", "setVolume", "playSound"}
            /\ lastCall'.actor = a)
                => \A b \in Actors \ {a} : ActorUntouched(b)
        /\ \A v \in PanValues :
            (lastCall'.op = "setEffect" /\ SetEffect(a, "pan", v)) =>
                /\ panEffect'[a] = v
                /\ pitchEffect' = pitchEffect
                /\ gain' = gain
                /\ activeSoundPlayers' = activeSoundPlayers
                /\ players' = players
                /\ sources' = sources]_vars

\* A setEffect has raised the pitch of an actor, with an instance playing at
\* the double rate, while an instance of another actor plays on at rate 1
\* under that actor's pitch 0.
C18_OtherActorPlaying ==
    /\ lastCall.op = "setEffect"
    /\ pitchEffect[lastCall.actor].value = 120
    /\ \E i \in DOMAIN players :
        /\ players[i].outputNode = effectsNode(lastCall.actor)
        /\ UnitPlaying(i)
        /\ sources[players[i].bufferSource].playbackRate = OneRate * 2
    /\ \E b \in Actors \ {lastCall.actor} : \E j \in DOMAIN players :
        /\ players[j].outputNode = effectsNode(b)
        /\ pitchEffect[b].value = 0
        /\ UnitPlaying(j)
        /\ players[j].playbackRate = OneRate
        /\ sources[players[j].bufferSource].playbackRate = OneRate

\* C20: clearEffects sets the actor's gain to 1 whatever it was; setEffect
\* leaves every gain as it is; setVolume(v) sets the actor's gain to v/100
\* and leaves every pitch, pan, registry, player and buffer source as it is.
C20_VolumeAndClearEffects ==
    [][\A a \in Actors :
        /\ lastCall'.op = "setEffect" => gain' = gain
        /\ (lastCall'.op = "clearEffects" /\ lastCall'.actor = a) =>
                gain'[a] = OneGain
        /\ \A v \in VolumeValues :
            (lastCall'.op = "setVolume" /\ SetVolume(a, v)) =>
                /\ gain'[a] * 100 = v * OneGain
                /\ pitchEffect' = pitchEffect
                /\ panEffect' = panEffect
                /\ activeSoundPlayers' = activeSoundPlayers
                /\ players' = players
                /\ sources' = sources]_vars

\* clearEffects has left an actor at gain 1, pitch 0 and pan 0 while another
\* actor, whose volume was set to 50, is at gain 1/2 with its pitch raised,
\* its pan set and an instance playing at the double rate.
C20_ClearedBesideHalfVolume ==
    /\ lastCall.op = "clearEffects"
    /\ gain[lastCall.actor] = OneGain
    /\ \E b \in Actors \ {lastCall.actor} :
        /\ gain[b] * 2 = OneGain
        /\ pitchEffect[b].value = 120
        /\ panEffect[b] = 100
        /\ \E j \in DOMAIN players :
            /\ players[j].outputNode = effectsNode(b)
            /\ UnitPlaying(j)
            /\ players[j].playbackRate = OneRate * 2

\* C19: the wait of a playDrumForBeats is set for 60000 * beats / tempo
\* milliseconds at the tempo of the call; no step but the firing of its timer
\* removes it or changes its delay, whether the drum's buffer was loaded, the
\* drum ended or stopAll or stopAllSounds stopped it; and its timer fires
\* when exactly that time has passed.
C19_DrumWaitIsNeverCancelled ==
    [][/\ lastCall'.op = "playDrumForBeats" =>
            /\ Len(waits') = Len(waits) + 1
            /\ waits'[Len(waits')].by = "playDrumForBeats"
            /\ waits'[Len(waits')].elapsed = 0
            /\ waits'[Len(waits')].tempo = currentTempo
            /\ waits'[Len(waits')].delay = Duration(waits'[Len(waits')])
       /\ Len(waits') < Len(waits) =>
            \E i \in DOMAIN waits :
                /\ TimerFires(i)
                /\ waits[i].elapsed = Duration(waits[i])
       /\ Len(waits') >= Len(waits) =>
            \A i \in DOMAIN waits :
                /\ waits'[i].elapsed >= waits[i].elapsed
                /\ waits'[i].elapsed <= Duration(waits[i])
                /\ waits'[i] = [waits[i] EXCEPT !.elapsed = waits'[i].elapsed]
       /\ \A i \in DOMAIN waits :
            timerDue(waits[i]) <=> waits[i].elapsed = Duration(waits[i])]_vars

\* stopAll or stopAllSounds has stopped a drum whose wait, set at another
\* tempo than the present one, is still running.
C19_StoppedWhileWaiting ==
    /\ lastCall.op \in {"drumStopAll", "stopAllSounds"}
    /\ \E s \in DOMAIN sources :
        sources[s].buffer[1] = "drum" /\ sources[s].state = "stopped"
    /\ \E i \in DOMAIN waits :
        /\ waits[i].by = "playDrumForBeats"
        /\ waits[i].tempo # currentTempo
        /\ waits[i].elapsed < Duration(waits[i])

====
